---------------------------- MODULE Spec2Model ----------------------------
(***************************************************************************)
(* A model of src/app.py, the Lebanon tourism dashboard.                   *)
(*                                                                         *)
(* The two data transformations (process_infrastructure_data and           *)
(* process_facility_counts) and the correlation chart                      *)
(* (create_facility_correlation_chart) are operators computed the way the  *)
(* code computes them.  A table (a pandas DataFrame) is a record           *)
(*   [columns |-> the set of column names, rows |-> a sequence of rows],   *)
(* each row a function from the table's columns to cells.  Floating point  *)
(* numbers are modelled by exact rationals [n, d] in lowest terms.         *)
(*                                                                         *)
(* Five specifications share the variables:                                *)
(*   SpecAgg, SpecCounts, SpecCorr  each function under every input,       *)
(*   SpecFrame  the three functions called on table objects in a heap,     *)
(*   Spec       a run of main, from load_data to the final assessment.     *)
(***************************************************************************)
EXTENDS Integers, Sequences, FiniteSets, TLC

VARIABLES
    pc,                 \* position of the call under study
    raw_data,           \* the table handed in by the loader
    infrastructure_df,  \* result of process_infrastructure_data
    facility_counts_df, \* result of process_facility_counts
    min_facilities,     \* threshold handed to the correlation chart
    facility_types,     \* facility types selected for the size metric
    show_correlation,   \* whether the caller asked for the trend line
    fig,                \* the traces of the correlation chart
    correlation_df,     \* the filtered table the chart returns
    insight,            \* the correlation insight text of main, if any
    raised,             \* the exception that ended the call, or "none"
    selected_categories, \* infrastructure types selected in the sidebar
    chart_style,        \* the style selected for the availability chart
    output,             \* what the run has rendered so far, in order
    calls               \* the functions the run has invoked, in order

vars == <<pc, raw_data, infrastructure_df, facility_counts_df, min_facilities,
          facility_types, show_correlation, fig, correlation_df, insight,
          raised, selected_categories, chart_style, output, calls>>

-----------------------------------------------------------------------------
(* Bounds of the model *)

\* the largest number of rows of a table handed to process_infrastructure_data
MaxRows == 2

\* the largest number of rows of a table handed to process_facility_counts
MaxTowns == 2

\* the largest number of towns of a table taken through the correlation chart
MaxPoints == 3

\* the largest threshold handed to the correlation chart
MaxThreshold == 3

-----------------------------------------------------------------------------
(* Exact arithmetic standing for Python/numpy floats *)

Abs(x) == IF x < 0 THEN -x ELSE x

RECURSIVE GCD(_, _)
GCD(a, b) == IF b = 0 THEN a ELSE GCD(b, a % b)

\* the rational n/d (d # 0) in lowest terms with a positive denominator
Rat(n, d) ==
    LET s == IF d < 0 THEN -1 ELSE 1
        g == GCD(Abs(n), Abs(d))
    IN  [n |-> (s * n) \div g, d |-> (s * d) \div g]

Num(k) == [n |-> k, d |-> 1]

RatAdd(a, b) == Rat(a.n * b.d + b.n * a.d, a.d * b.d)
RatSub(a, b) == Rat(a.n * b.d - b.n * a.d, a.d * b.d)
RatMul(a, b) == Rat(a.n * b.n, a.d * b.d)
RatDiv(a, b) == Rat(a.n * b.d, a.d * b.n)
RatLe(a, b)  == a.n * b.d <= b.n * a.d
RatLt(a, b)  == a.n * b.d < b.n * a.d

-----------------------------------------------------------------------------
(* Tables *)

None == [columns |-> {}, rows |-> <<>>, none |-> TRUE]

Table(cols, rws) == [columns |-> cols, rows |-> rws, none |-> FALSE]

\* df[col]: the cells of a column, top to bottom
Column(df, col) == [i \in 1..Len(df.rows) |-> df.rows[i][col]]

RECURSIVE SeqSum(_)
SeqSum(s) == IF s = <<>> THEN 0 ELSE Head(s) + SeqSum(Tail(s))

-----------------------------------------------------------------------------
(* process_infrastructure_data *)

infrastructure_mapping ==
    << [category |-> "Hotels",
        exists_col |-> "Existence of hotels - exists",
        not_exists_col |-> "Existence of hotels - does not exist"],
       [category |-> "Restaurants",
        exists_col |-> "Existence of restaurants - exists",
        not_exists_col |-> "Existence of restaurants - does not exist"],
       [category |-> "Cafes",
        exists_col |-> "Existence of cafes - exists",
        not_exists_col |-> "Existence of cafes - does not exist"],
       [category |-> "Guest Houses",
        exists_col |-> "Existence of guest houses - exists",
        not_exists_col |-> "Existence of guest houses - does not exist"],
       [category |-> "Tourist Attractions",
        exists_col |-> "Existence of touristic attractions prone to be exploited and developed - exists",
        not_exists_col |-> "Existence of touristic attractions that can be expolited and developed - does not exist"] >>

\* df[col].sum(); indexing a column the table lacks raises KeyError
ColumnSum(df, col) ==
    IF col \in df.columns
    THEN [raised |-> "none", value |-> SeqSum(Column(df, col))]
    ELSE [raised |-> "KeyError", value |-> 0]

\* a mutant of SideCount: the column is summed without the membership test
SideCountUnguarded(df, col) == ColumnSum(df, col)

\* df[col].sum() if col in df.columns else 0
SideCount(df, col) ==
    IF col \in df.columns THEN ColumnSum(df, col)
    ELSE [raised |-> "none", value |-> 0]

\* a mutant of Total: the not-exists side is left out
TotalExistsOnly(exists_count, not_exists_count) == exists_count

\* total = exists_count + not_exists_count
Total(exists_count, not_exists_count) == exists_count + not_exists_count

\* a mutant of Percentage: the share is not scaled to a percentage
PercentageUnscaled(exists_count, total) ==
    IF total > 0 THEN RatDiv(Num(exists_count), Num(total)) ELSE Num(0)

\* (exists_count / total * 100) if total > 0 else 0
Percentage(exists_count, total) ==
    IF total > 0
    THEN RatMul(RatDiv(Num(exists_count), Num(total)), Num(100))
    ELSE Num(0)

\* one pass of the loop over infrastructure_mapping
CategoryRow(df, m) ==
    LET e     == SideCount(df, m.exists_col)
        ne    == SideCount(df, m.not_exists_col)
        total == Total(e.value, ne.value)
    IN  [raised |-> IF e.raised # "none" THEN e.raised ELSE ne.raised,
         row |-> [Category |-> m.category,
                  Towns_With |-> e.value,
                  Towns_Without |-> ne.value,
                  Total_Towns |-> total,
                  Availability_Percentage |-> Percentage(e.value, total)]]

process_infrastructure_data(df) ==
    LET n   == Len(infrastructure_mapping)
        out == [i \in 1..n |-> CategoryRow(df, infrastructure_mapping[i])]
        bad == {i \in 1..n : out[i].raised # "none"}
    IN  IF bad = {}
        THEN [raised |-> "none", value |-> [i \in 1..n |-> out[i].row]]
        ELSE [raised |-> out[CHOOSE i \in bad : \A j \in bad : i <= j].raised,
              value |-> <<>>]

-----------------------------------------------------------------------------
(* Input tables for process_infrastructure_data *)

ExistenceColumns ==
    {infrastructure_mapping[i].exists_col : i \in 1..Len(infrastructure_mapping)}
    \cup {infrastructure_mapping[i].not_exists_col : i \in 1..Len(infrastructure_mapping)}

\* A town of kind k has the first k categories of the mapping and lacks the
\* others; each category's two flag columns hold 1 and 0 accordingly.
TownFlags(k) ==
    [c \in ExistenceColumns |->
        IF \E i \in 1..Len(infrastructure_mapping) :
              \/ infrastructure_mapping[i].exists_col = c /\ i <= k
              \/ infrastructure_mapping[i].not_exists_col = c /\ i > k
        THEN 1 ELSE 0]

TownKinds == 0..Len(infrastructure_mapping)

SeqsUpTo(S, n) == UNION {[1..m -> S] : m \in 0..n}

Restrict(f, D) == [x \in D |-> f[x]]

\* every table of at most n towns holding any subset of the ten columns
InfraTables(n) ==
    {Table(cols, [i \in 1..Len(ks) |-> Restrict(TownFlags(ks[i]), cols)]) :
        cols \in SUBSET ExistenceColumns, ks \in SeqsUpTo(TownKinds, n)}

-----------------------------------------------------------------------------
(* The aggregator under every input table *)

AggInit ==
    /\ pc = "start"
    /\ raw_data \in InfraTables(MaxRows)
    /\ infrastructure_df = <<>>
    /\ facility_counts_df = None
    /\ min_facilities = 0
    /\ facility_types = {}
    /\ show_correlation = FALSE
    /\ fig = <<>>
    /\ correlation_df = None
    /\ insight = <<>>
    /\ raised = "none"
    /\ selected_categories = {}
    /\ chart_style = ""
    /\ output = <<>>
    /\ calls = <<>>

Aggregate ==
    /\ pc = "start"
    /\ \E res \in {process_infrastructure_data(raw_data)} :
           /\ infrastructure_df' = res.value
           /\ raised' = res.raised
    /\ pc' = "done"
    /\ UNCHANGED <<raw_data, facility_counts_df, min_facilities, facility_types,
                   show_correlation, fig, correlation_df, insight,
                   selected_categories, chart_style, output, calls>>

AggNext == Aggregate

SpecAgg == AggInit /\ [][AggNext]_vars

-----------------------------------------------------------------------------
(* process_facility_counts *)

\* A cell of a facility-count column as read from the CSV: an integer, a
\* missing value (NaN) or a string.
IntCell(k) == [kind |-> "int", val |-> k, text |-> ""]
NaNCell    == [kind |-> "nan", val |-> 0, text |-> ""]
StrCell(t) == [kind |-> "str", val |-> 0, text |-> t]

\* a float that may be NaN
Value(k) == [nan |-> FALSE, val |-> k]
NaN      == [nan |-> TRUE, val |-> 0]

\* the strings the parser of pd.to_numeric reads as numbers (one digit here)
Digits == <<"0", "1", "2", "3", "4", "5", "6", "7", "8", "9">>
IsNumeral(t) == \E i \in DOMAIN Digits : Digits[i] = t
NumeralValue(t) == (CHOOSE i \in DOMAIN Digits : Digits[i] = t) - 1

Unparsable(cell) == cell.kind = "str" /\ ~IsNumeral(cell.text)

\* the value pd.to_numeric gives one cell when it does not raise
ParseCell(cell) ==
    IF cell.kind = "int" THEN Value(cell.val)
    ELSE IF cell.kind = "str" /\ IsNumeral(cell.text)
         THEN Value(NumeralValue(cell.text))
    ELSE NaN

\* pd.to_numeric(series, errors=...): with errors='raise' a string that is no
\* number raises ValueError, with errors='coerce' it becomes NaN
to_numeric(series, errors) ==
    IF errors = "raise" /\ \E i \in DOMAIN series : Unparsable(series[i])
    THEN [raised |-> "ValueError", value |-> <<>>]
    ELSE [raised |-> "none",
          value |-> [i \in DOMAIN series |-> ParseCell(series[i])]]

\* Series.fillna(v)
fillna(series, v) ==
    [i \in DOMAIN series |-> IF series[i].nan THEN v ELSE series[i].val]

\* the four source columns and the columns derived from them, in the order of
\* the assignments
facility_columns ==
    << [src |-> "Total number of hotels", dst |-> "Total_Hotels"],
       [src |-> "Total number of restaurants", dst |-> "Total_Restaurants"],
       [src |-> "Total number of cafes", dst |-> "Total_Cafes"],
       [src |-> "Total number of guest houses", dst |-> "Total_Guest_Houses"] >>

\* a mutant of NumericColumn: errors='coerce' is forgotten
NumericColumnStrict(df, col) ==
    IF col \notin df.columns THEN [raised |-> "KeyError", value |-> <<>>]
    ELSE LET num == to_numeric(Column(df, col), "raise")
         IN  IF num.raised # "none" THEN num
             ELSE [raised |-> "none", value |-> fillna(num.value, 0)]

\* pd.to_numeric(df_processed[col], errors='coerce').fillna(0); indexing a
\* column the table lacks raises KeyError
NumericColumn(df, col) ==
    IF col \notin df.columns THEN [raised |-> "KeyError", value |-> <<>>]
    ELSE [raised |-> "none",
          value |-> fillna(to_numeric(Column(df, col), "coerce").value, 0)]

\* Total_Hotels + Total_Restaurants + Total_Cafes + Total_Guest_Houses
TotalFacilities(hotels, restaurants, cafes, guest_houses) ==
    hotels + restaurants + cafes + guest_houses

\* a mutant of HasFacilities: towns without any facility are kept too
HasFacilitiesOrNone(total) == total >= 0

\* df_processed['Total_Facilities'] > 0
HasFacilities(total) == total > 0

DerivedColumns ==
    {facility_columns[k].dst : k \in DOMAIN facility_columns} \cup {"Total_Facilities"}

process_facility_counts(df) ==
    LET num == [k \in DOMAIN facility_columns |->
                    NumericColumn(df, facility_columns[k].src)]
        bad == {k \in DOMAIN facility_columns : num[k].raised # "none"}
        tot == [i \in 1..Len(df.rows) |->
                    TotalFacilities(num[1].value[i], num[2].value[i],
                                    num[3].value[i], num[4].value[i])]
        processed ==
            [i \in 1..Len(df.rows) |->
                [c \in df.columns \cup DerivedColumns |->
                    IF c = "Total_Facilities" THEN tot[i]
                    ELSE IF \E k \in DOMAIN facility_columns :
                                facility_columns[k].dst = c
                    THEN num[CHOOSE k \in DOMAIN facility_columns :
                                facility_columns[k].dst = c].value[i]
                    ELSE df.rows[i][c]]]
    IN  IF bad # {}
        THEN [raised |-> num[CHOOSE k \in bad : \A j \in bad : k <= j].raised,
              value |-> None]
        ELSE [raised |-> "none",
              value |-> Table(df.columns \cup DerivedColumns,
                              SelectSeq(processed,
                                  LAMBDA r : HasFacilities(r.Total_Facilities)))]

-----------------------------------------------------------------------------
(* Input tables for process_facility_counts *)

SourceColumns == {facility_columns[k].src : k \in DOMAIN facility_columns}

TownNames == <<"Aley", "Byblos", "Chekka", "Douma", "Ehden", "Faraya">>

CountCells ==
    {IntCell(0), IntCell(1), NaNCell, StrCell("unknown"), StrCell("2")}

\* the rows whose four cells are alike, and those with three cells holding 1
\* and the fourth holding anything
CountRowPool ==
    {[c \in SourceColumns |-> x] : x \in CountCells}
    \cup {[c \in SourceColumns |-> IF c = k THEN x ELSE IntCell(1)] :
            k \in SourceColumns, x \in CountCells}

\* the i-th row of a table: the town's name and the cells of the columns kept
TownRow(i, cells, cols) ==
    [c \in cols \cup {"Town"} |-> IF c = "Town" THEN TownNames[i] ELSE cells[c]]

\* every table of at most n towns holding any subset of the four
\* facility-count columns
CountTables(n) ==
    {Table(cols \cup {"Town"},
           [i \in 1..Len(rs) |-> TownRow(i, rs[i], cols)]) :
        cols \in SUBSET SourceColumns, rs \in SeqsUpTo(CountRowPool, n)}

-----------------------------------------------------------------------------
(* process_facility_counts under every input table *)

CountsInit ==
    /\ pc = "start"
    /\ raw_data \in CountTables(MaxTowns)
    /\ infrastructure_df = <<>>
    /\ facility_counts_df = None
    /\ min_facilities = 0
    /\ facility_types = {}
    /\ show_correlation = FALSE
    /\ fig = <<>>
    /\ correlation_df = None
    /\ insight = <<>>
    /\ raised = "none"
    /\ selected_categories = {}
    /\ chart_style = ""
    /\ output = <<>>
    /\ calls = <<>>

Count ==
    /\ pc = "start"
    /\ \E res \in {process_facility_counts(raw_data)} :
           /\ facility_counts_df' = res.value
           /\ raised' = res.raised
           /\ pc' = IF res.raised = "none" THEN "counted" ELSE "raised"
    /\ UNCHANGED <<raw_data, infrastructure_df, min_facilities, facility_types,
                   show_correlation, fig, correlation_df, insight,
                   selected_categories, chart_style, output, calls>>

CountsNext == Count

SpecCounts == CountsInit /\ [][CountsNext]_vars

-----------------------------------------------------------------------------
(* create_facility_correlation_chart *)

\* a float that may be NaN, held exactly
Float(r) == [nan |-> FALSE, v |-> r]
FloatNaN == [nan |-> TRUE, v |-> Num(0)]

\* a mutant of KeepsRow: a town exactly at the threshold is dropped
KeepsRowStrictly(total, minimum) == total > minimum

\* df['Total_Facilities'] >= min_facilities
KeepsRow(total, minimum) == total >= minimum

\* a mutant of SelectedFacilities: the guest houses are never added
SelectedFacilitiesNoGuestHouses(row, types) ==
    (IF "Hotels" \in types THEN row.Total_Hotels ELSE 0)
    + (IF "Restaurants" \in types THEN row.Total_Restaurants ELSE 0)
    + (IF "Cafes" \in types THEN row.Total_Cafes ELSE 0)

\* size_column: 0 plus the count of every facility type selected
SelectedFacilities(row, types) ==
    (IF "Hotels" \in types THEN row.Total_Hotels ELSE 0)
    + (IF "Restaurants" \in types THEN row.Total_Restaurants ELSE 0)
    + (IF "Cafes" \in types THEN row.Total_Cafes ELSE 0)
    + (IF "Guest Houses" \in types THEN row.Total_Guest_Houses ELSE 0)

\* sums over two series of equal length
SumProd(x, y) == SeqSum([i \in DOMAIN x |-> x[i] * y[i]])
\* n * sum(x*y) - sum(x) * sum(y): n*(n-1) times the covariance
Scatter(x, y) == Len(x) * SumProd(x, y) - SeqSum(x) * SeqSum(y)

Sign(k) == IF k > 0 THEN 1 ELSE IF k < 0 THEN -1 ELSE 0

\* np.corrcoef(x, y)[0,1]: the covariance over the product of the standard
\* deviations; 0/0, hence NaN, when either series is constant.  The
\* coefficient r is held as its sign and its square.
corrcoef(x, y) ==
    LET sxy == Scatter(x, y)
        sxx == Scatter(x, x)
        syy == Scatter(y, y)
    IN  IF sxx * syy = 0
        THEN [nan |-> TRUE, sign |-> 0, sq |-> Num(0)]
        ELSE [nan |-> FALSE, sign |-> Sign(sxy), sq |-> Rat(sxy * sxy, sxx * syy)]

\* The outcomes of fitting the least squares line y = slope * x + intercept
\* as numpy does: the columns of the Vandermonde matrix are scaled to unit
\* length and the minimum-norm solution is taken.  For a constant non-zero x
\* that solution is slope = mean(y) / (2 x), intercept = mean(y) / 2.  For x
\* all zero the scaling divides 0 by 0 and LAPACK's driver is handed NaN:
\* numpy raises LinAlgError when the driver reports no convergence, and a
\* build whose driver returns instead hands back NaN coefficients.
LeastSquares(x, y) ==
    LET n   == Len(x)
        sxx == Scatter(x, x)
    IN  IF sxx # 0
        THEN LET slope == Rat(Scatter(x, y), sxx)
             IN  {[raised |-> "none", nan |-> FALSE, slope |-> slope,
                   intercept |-> RatDiv(RatSub(Num(SeqSum(y)),
                                               RatMul(slope, Num(SeqSum(x)))),
                                        Num(n))]}
        ELSE IF x[1] # 0
        THEN {[raised |-> "none", nan |-> FALSE,
               slope |-> Rat(SeqSum(y), 2 * n * x[1]),
               intercept |-> Rat(SeqSum(y), 2 * n)]}
        ELSE {[raised |-> "LinAlgError", nan |-> TRUE, slope |-> Num(0),
               intercept |-> Num(0)],
              [raised |-> "none", nan |-> TRUE, slope |-> Num(0),
               intercept |-> Num(0)]}

\* a mutant of polyfit: the two series are handed over in the wrong order
polyfit_swapped(x, y) == LeastSquares(y, x)

\* np.polyfit(x, y, 1): the set of its outcomes
polyfit(x, y) == LeastSquares(x, y)

\* np.poly1d(z)(x)
poly1d(z, x) ==
    IF z.nan THEN FloatNaN
    ELSE Float(RatAdd(RatMul(z.slope, Num(x)), z.intercept))

SeqMin(s) == CHOOSE m \in {s[i] : i \in DOMAIN s} : \A i \in DOMAIN s : m <= s[i]
SeqMax(s) == CHOOSE m \in {s[i] : i \in DOMAIN s} : \A i \in DOMAIN s : m >= s[i]

\* the trend line trace and the annotation, added when the caller asked for
\* them and more than one row is left.  The label carries the coefficient;
\* its formatting to three decimals is left out.
TrendLine(x, y) ==
    LET correlation == corrcoef(x, y)
    IN  {[raised |-> z.raised,
          trace |-> [name |-> correlation,
                     z |-> [nan |-> z.nan, slope |-> z.slope,
                            intercept |-> z.intercept],
                     x_first |-> SeqMin(x), x_last |-> SeqMax(x),
                     y_first |-> poly1d(z, SeqMin(x)),
                     y_last |-> poly1d(z, SeqMax(x))],
          annotation |-> [text |-> correlation]] : z \in polyfit(x, y)}

\* the outcomes of create_facility_correlation_chart: the exception raised,
\* or the figure and the filtered table returned
create_facility_correlation_chart(df, minimum, types, show) ==
    LET kept == SelectSeq(df.rows, LAMBDA r : KeepsRow(r.Total_Facilities, minimum))
        filtered_df ==
            Table(df.columns \cup {"Selected_Facilities"},
                  [i \in 1..Len(kept) |->
                      [c \in df.columns \cup {"Selected_Facilities"} |->
                          IF c = "Selected_Facilities"
                          THEN SelectedFacilities(kept[i], types)
                          ELSE kept[i][c]]])
        scatter ==
            [x |-> Column(filtered_df, "Total_Hotels"),
             y |-> Column(filtered_df, "Total_Restaurants"),
             size |-> [i \in 1..Len(kept) |->
                          filtered_df.rows[i].Selected_Facilities * 3 + 8],
             color |-> Column(filtered_df, "Total_Facilities"),
             text |-> Column(filtered_df, "Town")]
    IN  IF show /\ Len(kept) > 1
        THEN {IF trend.raised # "none"
              THEN [raised |-> trend.raised, fig |-> <<>>, filtered_df |-> None]
              ELSE [raised |-> "none",
                    fig |-> [scatter |-> scatter, trend |-> <<trend.trace>>,
                             annotations |-> <<trend.annotation>>],
                    filtered_df |-> filtered_df] :
                 trend \in TrendLine(scatter.x, scatter.y)}
        ELSE {[raised |-> "none",
               fig |-> [scatter |-> scatter, trend |-> <<>>, annotations |-> <<>>],
               filtered_df |-> filtered_df]}

-----------------------------------------------------------------------------
(* The correlation insight of main *)

\* r > t for a coefficient held as sign and square; any comparison with NaN
\* is false
CorrGt(r, t) ==
    /\ ~r.nan
    /\ IF t.n >= 0
       THEN r.sign = 1 /\ RatLt(RatMul(t, t), r.sq)
       ELSE r.sign >= 0 \/ RatLt(r.sq, RatMul(t, t))

\* the chain of comparisons that words the coefficient
Interpretation(r) ==
    IF CorrGt(r, Rat(7, 10)) THEN "Strong positive correlation"
    ELSE IF CorrGt(r, Rat(3, 10)) THEN "Moderate positive correlation"
    ELSE IF CorrGt(r, Rat(-3, 10)) THEN "Weak correlation"
    ELSE "Negative correlation"

Integration(r) ==
    IF CorrGt(r, Rat(5, 10)) THEN "High"
    ELSE IF CorrGt(r, Rat(3, 10)) THEN "Moderate"
    ELSE "Low"

\* correlation_df.nlargest(3, 'Total_Facilities').iloc[0]: the first row
\* holding the largest total
TopHub(df) ==
    df.rows[CHOOSE i \in 1..Len(df.rows) :
                /\ \A j \in 1..Len(df.rows) :
                      df.rows[j].Total_Facilities <= df.rows[i].Total_Facilities
                /\ \A j \in 1..(i - 1) :
                      df.rows[j].Total_Facilities < df.rows[i].Total_Facilities]

\* the insight box under the correlation chart
CorrelationInsight(df, minimum, show) ==
    IF Len(df.rows) > 1 /\ show
    THEN LET correlation_coeff ==
                corrcoef(Column(df, "Total_Hotels"), Column(df, "Total_Restaurants"))
         IN  << [correlation_coeff |-> correlation_coeff,
                 interpretation |-> Interpretation(correlation_coeff),
                 towns |-> Len(df.rows),
                 minimum |-> minimum,
                 top_hub |-> TopHub(df).Town,
                 integration |-> Integration(correlation_coeff)] >>
    ELSE <<>>

-----------------------------------------------------------------------------
(* Input tables for the correlation chart *)

FacilityTypes == {"Hotels", "Restaurants", "Cafes", "Guest Houses"}

SourceRow(hotels, restaurants, cafes, guest_houses) ==
    [c \in SourceColumns |->
        CASE c = "Total number of hotels" -> hotels
          [] c = "Total number of restaurants" -> restaurants
          [] c = "Total number of cafes" -> cafes
          [] c = "Total number of guest houses" -> guest_houses]

\* Sample towns: three on the line restaurants = 2 * hotels, one sharing its
\* hotel count with the first, and one without hotels, sharing its
\* restaurant count with the first, whose cells are partly no numbers.
SampleTowns ==
    { SourceRow(IntCell(1), IntCell(2), IntCell(0), IntCell(0)),
      SourceRow(IntCell(3), IntCell(6), IntCell(1), IntCell(0)),
      SourceRow(IntCell(2), IntCell(4), IntCell(0), IntCell(1)),
      SourceRow(IntCell(1), IntCell(0), IntCell(1), IntCell(0)),
      SourceRow(StrCell("unknown"), IntCell(2), NaNCell, StrCell("2")) }

\* every table of at most n sample towns
CorrTables(n) ==
    {Table(SourceColumns \cup {"Town"},
           [i \in 1..Len(rs) |-> TownRow(i, rs[i], SourceColumns)]) :
        rs \in SeqsUpTo(SampleTowns, n)}

-----------------------------------------------------------------------------
(* The correlation chart under every table, threshold and selection *)

CorrInit ==
    /\ pc = "start"
    /\ raw_data \in CorrTables(MaxPoints)
    /\ infrastructure_df = <<>>
    /\ facility_counts_df = None
    /\ min_facilities = 0
    /\ facility_types = {}
    /\ show_correlation = FALSE
    /\ fig = <<>>
    /\ correlation_df = None
    /\ insight = <<>>
    /\ raised = "none"
    /\ selected_categories = {}
    /\ chart_style = ""
    /\ output = <<>>
    /\ calls = <<>>

\* the chart is drawn and the insight under it is written
Visualization2 ==
    /\ pc = "counted"
    /\ \E minimum \in 0..MaxThreshold, types \in SUBSET FacilityTypes,
          show \in BOOLEAN :
          \E res \in create_facility_correlation_chart(
                         facility_counts_df, minimum, types, show) :
              /\ min_facilities' = minimum
              /\ facility_types' = types
              /\ show_correlation' = show
              /\ raised' = res.raised
              /\ fig' = res.fig
              /\ correlation_df' = res.filtered_df
              /\ IF res.raised = "none"
                 THEN /\ insight' = CorrelationInsight(res.filtered_df, minimum, show)
                      /\ pc' = "done"
                 ELSE /\ insight' = <<>>
                      /\ pc' = "raised"
    /\ UNCHANGED <<raw_data, infrastructure_df, facility_counts_df,
                   selected_categories, chart_style, output, calls>>

CorrNext == Count \/ Visualization2

SpecCorr == CorrInit /\ [][CorrNext]_vars

-----------------------------------------------------------------------------
(* What a run renders *)

\* st.error, st.warning
Message(kind, text) == [kind |-> kind, label |-> text]

\* st.metric and st.sidebar.metric
Metric(label, value, delta) ==
    [kind |-> "metric", label |-> label, value |-> value, delta |-> delta]

\* st.plotly_chart
Chart(name, figure) == [kind |-> "plotly_chart", label |-> name, fig |-> figure]

\* an insight box written with st.markdown
Insight(title, body) == [kind |-> "insight", label |-> title, body |-> body]

-----------------------------------------------------------------------------
(* load_data *)

\* The outcomes of load_data: one request is made; when requests.get or
\* pd.read_csv raises, the exception is caught, reported with st.error and
\* answered with None; otherwise the table parsed is returned.
load_data(fetch, parse, table) ==
    IF fetch = "raises"
    THEN [calls |-> <<"requests.get">>,
          output |-> <<Message("error", "Error loading data")>>,
          value |-> None]
    ELSE IF parse = "raises"
    THEN [calls |-> <<"requests.get", "pd.read_csv">>,
          output |-> <<Message("error", "Error loading data")>>,
          value |-> None]
    ELSE [calls |-> <<"requests.get", "pd.read_csv">>,
          output |-> <<>>,
          value |-> table]

-----------------------------------------------------------------------------
(* The steps of main *)

\* a mutant of IsNone: the failed load goes unnoticed
IsNoneNever(data) == FALSE

\* raw_data is None
IsNone(data) == data.none

\* Series.max() of Total_Facilities: NaN for an empty table
MaxFacilities(df) ==
    IF Len(df.rows) = 0 THEN NaN
    ELSE Value(SeqMax(Column(df, "Total_Facilities")))

\* int(x): NaN cannot be converted
int(x) ==
    IF x.nan THEN [raised |-> "ValueError", value |-> 0]
    ELSE [raised |-> "none", value |-> x.val]

\* the positions the threshold slider can take; the model stops at
\* MaxThreshold
SliderValues(max_value) ==
    {v \in 0..max_value : v <= MaxThreshold}

\* infrastructure_df[infrastructure_df['Category'] == name] as a row sequence
CategoryRows(df, names) == SelectSeq(df, LAMBDA r : r.Category \in names)

\* Series.mean() of a non-empty column of integers
Mean(s) == Rat(SeqSum(s), Len(s))

\* the four metrics of the key metrics dashboard; .iloc[0] of an empty
\* selection raises IndexError
KeyMetricsOf(infra, counts) ==
    LET hotels      == CategoryRows(infra, {"Hotels"})
        restaurants == CategoryRows(infra, {"Restaurants"})
        attractions == CategoryRows(infra, {"Tourist Attractions"})
        totals      == Column(counts, "Total_Facilities")
    IN  IF hotels = <<>> \/ restaurants = <<>> \/ attractions = <<>>
        THEN [raised |-> "IndexError", output |-> <<>>]
        ELSE [raised |-> "none",
              output |->
                << Metric("Towns with Hotels", hotels[1].Towns_With,
                          hotels[1].Availability_Percentage),
                   Metric("Towns with Restaurants", restaurants[1].Towns_With,
                          restaurants[1].Availability_Percentage),
                   Metric("Towns with Attractions", attractions[1].Towns_With,
                          attractions[1].Availability_Percentage),
                   Metric("Avg Facilities/Town",
                          IF totals = <<>> THEN FloatNaN ELSE Float(Mean(totals)),
                          MaxFacilities(counts)) >>]

\* create_infrastructure_availability_chart: the rows of the categories
\* selected, drawn as two stacked bar traces or, for the donut, as one pair
\* of slices for each row
create_infrastructure_availability_chart(df, categories, style) ==
    LET filtered_df == CategoryRows(df, categories)
        n == Len(filtered_df)
    IN  IF style = "Horizontal Bar Chart"
        THEN [style |-> style,
              traces |->
                << [name |-> "Towns With Infrastructure",
                    y |-> [i \in 1..n |-> filtered_df[i].Category],
                    x |-> [i \in 1..n |-> filtered_df[i].Towns_With]],
                   [name |-> "Towns Without Infrastructure",
                    y |-> [i \in 1..n |-> filtered_df[i].Category],
                    x |-> [i \in 1..n |-> filtered_df[i].Towns_Without]] >>]
        ELSE [style |-> style,
              traces |->
                << [name |-> "Pie",
                    y |-> [k \in 1..(2 * n) |->
                              <<filtered_df[(k + 1) \div 2].Category,
                                IF k % 2 = 1 THEN "Available"
                                ELSE "Not Available">>],
                    x |-> [k \in 1..(2 * n) |->
                              IF k % 2 = 1
                              THEN filtered_df[(k + 1) \div 2].Towns_With
                              ELSE filtered_df[(k + 1) \div 2].Towns_Without]] >>]

\* Series.idxmax(): the first position holding the largest value; an empty
\* series raises ValueError
idxmax(s) ==
    IF s = <<>> THEN [raised |-> "ValueError", value |-> 0]
    ELSE [raised |-> "none",
          value |-> CHOOSE i \in DOMAIN s :
                        /\ \A j \in DOMAIN s : RatLe(s[j], s[i])
                        /\ \A j \in 1..(i - 1) : RatLt(s[j], s[i])]

\* Series.idxmin(): the first position holding the smallest value
idxmin(s) ==
    IF s = <<>> THEN [raised |-> "ValueError", value |-> 0]
    ELSE [raised |-> "none",
          value |-> CHOOSE i \in DOMAIN s :
                        /\ \A j \in DOMAIN s : RatLe(s[i], s[j])
                        /\ \A j \in 1..(i - 1) : RatLt(s[i], s[j])]

\* the insight box under the availability chart
InfrastructureInsight(infra, categories) ==
    LET filtered_infra_df == CategoryRows(infra, categories)
        pct   == [i \in DOMAIN filtered_infra_df |->
                     filtered_infra_df[i].Availability_Percentage]
        best  == idxmax(pct)
        worst == idxmin(pct)
    IN  IF best.raised # "none"
        THEN [raised |-> best.raised, rows |-> 0, output |-> <<>>]
        ELSE [raised |-> "none",
              rows |-> Len(filtered_infra_df),
              output |->
                << Insight("Key Insights from Infrastructure Analysis",
                       [best |-> filtered_infra_df[best.value].Category,
                        worst |-> filtered_infra_df[worst.value].Category,
                        rows |-> Len(filtered_infra_df)]) >>]

\* len(correlation_df[(Total_Hotels > 0) & (Total_Restaurants > 0)])
TownsWithBoth(df) ==
    Len(SelectSeq(df.rows,
                  LAMBDA r : r.Total_Hotels > 0 /\ r.Total_Restaurants > 0))

\* len(correlation_df[Total_Facilities >= 10])
ComprehensiveHubs(df) ==
    Len(SelectSeq(df.rows, LAMBDA r : r.Total_Facilities >= 10))

\* a mutant of ComprehensiveMetrics: the towns holding both are counted over
\* every row of the table loaded instead of the filtered rows
ComprehensiveMetricsUnfiltered(data, filtered) ==
    [total_towns |-> Len(data.rows),
     towns_with_both |-> TownsWithBoth(process_facility_counts(data).value),
     comprehensive_hubs |-> ComprehensiveHubs(filtered)]

\* total_towns, towns_with_both and comprehensive_hubs
ComprehensiveMetrics(data, filtered) ==
    [total_towns |-> Len(data.rows),
     towns_with_both |-> TownsWithBoth(filtered),
     comprehensive_hubs |-> ComprehensiveHubs(filtered)]

\* DataFrame.nlargest(n, 'Total_Facilities'): the n rows holding the largest
\* totals, largest first, rows of equal total in their order in the table
RECURSIVE nlargest(_, _)
nlargest(df, n) ==
    IF n = 0 \/ df.rows = <<>> THEN <<>>
    ELSE LET top  == TopHub(df)
             i    == CHOOSE k \in 1..Len(df.rows) :
                         /\ df.rows[k] = top
                         /\ \A j \in 1..(k - 1) : df.rows[j] # top
             rest == [k \in 1..(Len(df.rows) - 1) |->
                         IF k < i THEN df.rows[k] ELSE df.rows[k + 1]]
         IN  <<top>> \o nlargest(Table(df.columns, rest), n - 1)

\* the two metrics of the assessment and the table of top destinations; the
\* division by total_towns raises ZeroDivisionError for a table without rows
AssessmentOf(data, filtered) ==
    LET m == ComprehensiveMetrics(data, filtered)
        top_destinations == nlargest(filtered, 5)
    IN  IF m.total_towns = 0
        THEN [raised |-> "ZeroDivisionError", output |-> <<>>]
        ELSE [raised |-> "none",
              output |->
                << Metric("Tourism-Ready Towns", m.comprehensive_hubs,
                          Rat(m.comprehensive_hubs * 100, m.total_towns)),
                   Metric("Integrated Infrastructure", m.towns_with_both,
                          Rat(m.towns_with_both * 100, m.total_towns)) >>
                \o (IF filtered.rows = <<>> THEN <<>>
                    ELSE << [kind |-> "dataframe",
                             label |-> "Top Tourism Destinations",
                             towns |-> [i \in DOMAIN top_destinations |->
                                           top_destinations[i].Town]] >>)]

-----------------------------------------------------------------------------
(* Input tables for a run of main *)

\* the largest number of towns of a table a run of main loads
MaxLoaded == 2

\* a town's existence flags and facility counts
LoadedRow(kind, hotels, restaurants, cafes, guest_houses) ==
    [c \in ExistenceColumns \cup SourceColumns |->
        IF c \in ExistenceColumns THEN TownFlags(kind)[c]
        ELSE SourceRow(hotels, restaurants, cafes, guest_houses)[c]]

\* Loaded towns: one without any facility, a hub of eleven facilities, one
\* with a single hotel and a single restaurant, and one with restaurants and
\* a guest house but no hotel.
LoadedTowns ==
    { LoadedRow(0, IntCell(0), NaNCell, IntCell(0), StrCell("unknown")),
      LoadedRow(5, IntCell(6), IntCell(4), IntCell(1), IntCell(0)),
      LoadedRow(2, IntCell(1), IntCell(1), IntCell(0), IntCell(0)),
      LoadedRow(3, IntCell(0), IntCell(2), NaNCell, IntCell(1)) }

\* every table of at most n towns, the table without rows included, and a
\* table parsed from a response that lacks the facility-count columns
LoadedTables(n) ==
    {Table(ExistenceColumns \cup SourceColumns \cup {"Town"},
           [i \in 1..Len(rs) |->
               TownRow(i, rs[i], ExistenceColumns \cup SourceColumns)]) :
        rs \in SeqsUpTo(LoadedTowns, n)}
    \cup {Table(ExistenceColumns \cup {"Town"},
                <<TownRow(1, TownFlags(1), ExistenceColumns)>>)}

\* the selections a multiselect is left with: nothing, one option, or all
Selections(options) ==
    {S \in SUBSET options : Cardinality(S) <= 1 \/ S = options}

ChartStyles == {"Horizontal Bar Chart", "Donut Chart"}

-----------------------------------------------------------------------------
(* A run of main *)

Init ==
    /\ pc = "main"
    /\ raw_data = None
    /\ infrastructure_df = <<>>
    /\ facility_counts_df = None
    /\ min_facilities = 0
    /\ facility_types = {}
    /\ show_correlation = FALSE
    /\ fig = <<>>
    /\ correlation_df = None
    /\ insight = <<>>
    /\ raised = "none"
    /\ selected_categories = {}
    /\ chart_style = ""
    /\ output = <<>>
    /\ calls = <<>>

\* raw_data = load_data()
LoadData ==
    /\ pc = "main"
    /\ \E fetch \in {"returns", "raises"}, parse \in {"returns", "raises"},
          table \in LoadedTables(MaxLoaded) :
          \E res \in {load_data(fetch, parse, table)} :
              /\ raw_data' = res.value
              /\ calls' = calls \o <<"load_data">> \o res.calls
              /\ output' = output \o res.output
    /\ pc' = "loaded"
    /\ UNCHANGED <<infrastructure_df, facility_counts_df, min_facilities,
                   facility_types, show_correlation, fig, correlation_df,
                   insight, raised, selected_categories, chart_style>>

\* if raw_data is None: st.error(...); return
FailedLoad ==
    /\ pc = "loaded"
    /\ IsNone(raw_data)
    /\ output' = Append(output, Message("error", "Failed to load data"))
    /\ pc' = "returned"
    /\ UNCHANGED <<raw_data, infrastructure_df, facility_counts_df,
                   min_facilities, facility_types, show_correlation, fig,
                   correlation_df, insight, raised, selected_categories,
                   chart_style, calls>>

\* the two process_* calls
ProcessData ==
    /\ pc = "loaded"
    /\ ~IsNone(raw_data)
    /\ \E infra \in {process_infrastructure_data(raw_data)} :
          /\ infrastructure_df' = infra.value
          /\ IF infra.raised # "none"
             THEN /\ calls' = Append(calls, "process_infrastructure_data")
                  /\ raised' = infra.raised
                  /\ pc' = "raised"
                  /\ UNCHANGED facility_counts_df
             ELSE \E counts \in {process_facility_counts(raw_data)} :
                      /\ calls' = calls \o <<"process_infrastructure_data",
                                             "process_facility_counts">>
                      /\ facility_counts_df' = counts.value
                      /\ raised' = counts.raised
                      /\ pc' = IF counts.raised = "none" THEN "processed"
                               ELSE "raised"
    /\ UNCHANGED <<raw_data, min_facilities, facility_types, show_correlation,
                   fig, correlation_df, insight, selected_categories,
                   chart_style, output>>

\* the sidebar: the dataset overview and the controls of both charts
Sidebar ==
    /\ pc = "processed"
    /\ \E categories \in
              Selections({infrastructure_df[i].Category :
                              i \in DOMAIN infrastructure_df}),
          style \in ChartStyles,
          max_value \in {int(MaxFacilities(facility_counts_df))} :
          /\ selected_categories' = categories
          /\ chart_style' = style
          /\ output' = output \o
                << Metric("Total Towns Analyzed", Len(raw_data.rows), <<>>),
                   Metric("Towns with Facilities",
                          Len(facility_counts_df.rows), <<>>),
                   Metric("Infrastructure Categories",
                          Len(infrastructure_df), <<>>) >>
          /\ IF max_value.raised # "none"
             THEN /\ raised' = max_value.raised
                  /\ pc' = "raised"
                  /\ UNCHANGED <<min_facilities, facility_types,
                                 show_correlation>>
             ELSE /\ \E minimum \in SliderValues(max_value.value),
                        types \in Selections(FacilityTypes)
                                    \cup {{"Hotels", "Restaurants"}},
                        show \in BOOLEAN :
                        /\ min_facilities' = minimum
                        /\ facility_types' = types
                        /\ show_correlation' = show
                  /\ pc' = "controls"
                  /\ UNCHANGED raised
    /\ UNCHANGED <<raw_data, infrastructure_df, facility_counts_df, fig,
                   correlation_df, insight, calls>>

\* if not selected_categories: st.warning(...); return
NoCategories ==
    /\ pc = "controls"
    /\ selected_categories = {}
    /\ output' = Append(output,
                   Message("warning", "Please select at least one infrastructure category"))
    /\ pc' = "returned"
    /\ UNCHANGED <<raw_data, infrastructure_df, facility_counts_df,
                   min_facilities, facility_types, show_correlation, fig,
                   correlation_df, insight, raised, selected_categories,
                   chart_style, calls>>

\* if not facility_types: st.warning(...); return
NoFacilityTypes ==
    /\ pc = "controls"
    /\ selected_categories # {}
    /\ facility_types = {}
    /\ output' = Append(output,
                   Message("warning", "Please select at least one facility type"))
    /\ pc' = "returned"
    /\ UNCHANGED <<raw_data, infrastructure_df, facility_counts_df,
                   min_facilities, facility_types, show_correlation, fig,
                   correlation_df, insight, raised, selected_categories,
                   chart_style, calls>>

\* the key metrics dashboard
KeyMetrics ==
    /\ pc = "controls"
    /\ selected_categories # {}
    /\ facility_types # {}
    /\ \E res \in {KeyMetricsOf(infrastructure_df, facility_counts_df)} :
          /\ output' = output \o res.output
          /\ raised' = res.raised
          /\ pc' = IF res.raised = "none" THEN "metrics" ELSE "raised"
    /\ UNCHANGED <<raw_data, infrastructure_df, facility_counts_df,
                   min_facilities, facility_types, show_correlation, fig,
                   correlation_df, insight, selected_categories, chart_style,
                   calls>>

\* the availability chart and the insight under it
Visualization1 ==
    /\ pc = "metrics"
    /\ \E viz1_fig \in {create_infrastructure_availability_chart(
                            infrastructure_df, selected_categories, chart_style)},
          res \in {InfrastructureInsight(infrastructure_df, selected_categories)} :
          /\ calls' = Append(calls, "create_infrastructure_availability_chart")
          /\ output' = output
                         \o <<Chart("lebanon_infrastructure_availability", viz1_fig)>>
                         \o res.output
          /\ raised' = res.raised
          /\ pc' = IF res.raised = "none" THEN "viz1" ELSE "raised"
    /\ UNCHANGED <<raw_data, infrastructure_df, facility_counts_df,
                   min_facilities, facility_types, show_correlation, fig,
                   correlation_df, insight, selected_categories, chart_style>>

\* the correlation chart and the insight under it
CorrelationAnalysis ==
    /\ pc = "viz1"
    /\ \E res \in create_facility_correlation_chart(
                      facility_counts_df, min_facilities, facility_types,
                      show_correlation) :
          /\ calls' = Append(calls, "create_facility_correlation_chart")
          /\ raised' = res.raised
          /\ fig' = res.fig
          /\ correlation_df' = res.filtered_df
          /\ IF res.raised = "none"
             THEN \E text \in {CorrelationInsight(res.filtered_df,
                                                  min_facilities,
                                                  show_correlation)} :
                      /\ insight' = text
                      /\ output' = output
                            \o <<Chart("lebanon_hotel_restaurant_correlation",
                                       res.fig)>>
                            \o [i \in DOMAIN text |->
                                   Insight("Correlation Analysis Insights",
                                           text[i])]
                      /\ pc' = "viz2"
             ELSE /\ insight' = <<>>
                  /\ output' = output
                  /\ pc' = "raised"
    /\ UNCHANGED <<raw_data, infrastructure_df, facility_counts_df,
                   min_facilities, facility_types, show_correlation,
                   selected_categories, chart_style>>

\* the comprehensive assessment that ends the page
Assessment ==
    /\ pc = "viz2"
    /\ \E res \in {AssessmentOf(raw_data, correlation_df)} :
          /\ output' = output \o res.output
          /\ raised' = res.raised
          /\ pc' = IF res.raised = "none" THEN "done" ELSE "raised"
    /\ UNCHANGED <<raw_data, infrastructure_df, facility_counts_df,
                   min_facilities, facility_types, show_correlation, fig,
                   correlation_df, insight, selected_categories, chart_style,
                   calls>>

Next ==
    \/ LoadData
    \/ FailedLoad
    \/ ProcessData
    \/ Sidebar
    \/ NoCategories
    \/ NoFacilityTypes
    \/ KeyMetrics
    \/ Visualization1
    \/ CorrelationAnalysis
    \/ Assessment

Spec == Init /\ [][Next]_vars

-----------------------------------------------------------------------------
(* Tables as objects *)

\* The tables a call works on live in a heap, a sequence of tables; a name
\* of the code refers to a table by its position in the heap.
Alloc(heap, table) == [heap |-> Append(heap, table), ref |-> Len(heap) + 1]

\* a mutant of copy: the name is bound to the table itself
copy_alias(heap, ref) == [heap |-> heap, ref |-> ref]

\* DataFrame.copy(): a new table holding the same cells
copy(heap, ref) == Alloc(heap, heap[ref])

\* the rows a boolean mask selects, in their order
RECURSIVE Masked(_, _)
Masked(rows, mask) ==
    IF rows = <<>> THEN <<>>
    ELSE (IF Head(mask) THEN <<Head(rows)>> ELSE <<>>)
         \o Masked(Tail(rows), Tail(mask))

\* df[mask]: a new table of the rows the mask selects
getitem_mask(heap, ref, mask) ==
    Alloc(heap, Table(heap[ref].columns, Masked(heap[ref].rows, mask)))

\* df[col] = values: the column is added to, or replaced in, the table itself
setitem(heap, ref, col, values) ==
    [heap EXCEPT ![ref] =
        Table(@.columns \cup {col},
              [i \in 1..Len(@.rows) |->
                  [c \in @.columns \cup {col} |->
                      IF c = col THEN values[i] ELSE @.rows[i][c]]])]

\* del df[col]
delitem(heap, ref, col) ==
    [heap EXCEPT ![ref] =
        Table(@.columns \ {col},
              [i \in 1..Len(@.rows) |-> Restrict(@.rows[i], @.columns \ {col})])]

\* a mutant of process_infrastructure_data_in: every column is taken out of
\* the table as it is summed (df.pop(col).sum())
RECURSIVE DrainColumns(_, _, _)
DrainColumns(heap, df, cols) ==
    IF cols = {} THEN heap
    ELSE LET c == CHOOSE x \in cols : TRUE
         IN  DrainColumns(delitem(heap, df, c), df, cols \ {c})

process_infrastructure_data_draining(heap, df) ==
    LET res == process_infrastructure_data(heap[df])
    IN  [raised |-> res.raised, value |-> res.value,
         heap |-> DrainColumns(heap, df, heap[df].columns \cap ExistenceColumns)]

\* process_infrastructure_data on the table at df: the call reads df.columns
\* and df[col].sum() and writes to no table
process_infrastructure_data_in(heap, df) ==
    LET res == process_infrastructure_data(heap[df])
    IN  [raised |-> res.raised, value |-> res.value, heap |-> heap]

\* the four assignments of the numeric columns to df_processed, from the
\* k-th on; a KeyError ends them
RECURSIVE AssignCounts(_, _, _)
AssignCounts(heap, df_processed, k) ==
    IF k > Len(facility_columns) THEN [raised |-> "none", heap |-> heap]
    ELSE LET num == NumericColumn(heap[df_processed], facility_columns[k].src)
         IN  IF num.raised # "none"
             THEN [raised |-> num.raised, heap |-> heap]
             ELSE AssignCounts(setitem(heap, df_processed,
                                       facility_columns[k].dst, num.value),
                               df_processed, k + 1)

\* process_facility_counts on the table at df, statement by statement
process_facility_counts_in(heap, df) ==
    LET df_processed == copy(heap, df)
        p        == df_processed.ref
        assigned == AssignCounts(df_processed.heap, p, 1)
        h        == assigned.heap
        totalled ==
            setitem(h, p, "Total_Facilities",
                    [i \in 1..Len(h[p].rows) |->
                        TotalFacilities(h[p].rows[i].Total_Hotels,
                                        h[p].rows[i].Total_Restaurants,
                                        h[p].rows[i].Total_Cafes,
                                        h[p].rows[i].Total_Guest_Houses)])
        masked   == getitem_mask(totalled, p,
                        [i \in 1..Len(totalled[p].rows) |->
                            HasFacilities(totalled[p].rows[i].Total_Facilities)])
        df_with_facilities == copy(masked.heap, masked.ref)
    IN  IF assigned.raised # "none"
        THEN [raised |-> assigned.raised, heap |-> h, value |-> None]
        ELSE [raised |-> "none", heap |-> df_with_facilities.heap,
              value |-> df_with_facilities.heap[df_with_facilities.ref]]

\* create_facility_correlation_chart on the table at df: the rows are
\* filtered into a copy, which receives the Selected_Facilities column
create_facility_correlation_chart_in(heap, df, minimum, types, show) ==
    LET masked == getitem_mask(heap, df,
                      [i \in 1..Len(heap[df].rows) |->
                          KeepsRow(heap[df].rows[i].Total_Facilities, minimum)])
        filtered_df == copy(masked.heap, masked.ref)
        f == filtered_df.ref
        h == setitem(filtered_df.heap, f, "Selected_Facilities",
                     [i \in 1..Len(filtered_df.heap[f].rows) |->
                         SelectedFacilities(filtered_df.heap[f].rows[i], types)])
    IN  {[raised |-> o.raised, fig |-> o.fig, heap |-> h,
          filtered_df |-> IF o.raised = "none" THEN h[f] ELSE None] :
            o \in create_facility_correlation_chart(heap[df], minimum, types, show)}

-----------------------------------------------------------------------------
(* The three functions called on one table after another *)

FrameInit ==
    /\ pc = "start"
    /\ raw_data \in LoadedTables(MaxLoaded)
    /\ infrastructure_df = <<>>
    /\ facility_counts_df = None
    /\ min_facilities = 0
    /\ facility_types = {}
    /\ show_correlation = FALSE
    /\ fig = <<>>
    /\ correlation_df = None
    /\ insight = <<>>
    /\ raised = "none"
    /\ selected_categories = {}
    /\ chart_style = ""
    /\ output = <<>>
    /\ calls = <<>>

\* process_infrastructure_data(raw_data), a first and a second time
CallAggregator ==
    /\ pc \in {"start", "aggregated"}
    /\ \E res \in {process_infrastructure_data_in(<<raw_data>>, 1)} :
          /\ infrastructure_df' = res.value
          /\ raised' = res.raised
          /\ raw_data' = res.heap[1]
    /\ pc' = IF pc = "start" THEN "aggregated" ELSE "aggregated again"
    /\ calls' = Append(calls, "process_infrastructure_data")
    /\ UNCHANGED <<facility_counts_df, min_facilities, facility_types,
                   show_correlation, fig, correlation_df, insight,
                   selected_categories, chart_style, output>>

\* process_facility_counts(raw_data)
CallCounts ==
    /\ pc = "aggregated again"
    /\ \E res \in {process_facility_counts_in(<<raw_data>>, 1)} :
          /\ facility_counts_df' = res.value
          /\ raised' = res.raised
          /\ raw_data' = res.heap[1]
          /\ pc' = IF res.raised = "none" THEN "tallied" ELSE "raised"
    /\ calls' = Append(calls, "process_facility_counts")
    /\ UNCHANGED <<infrastructure_df, min_facilities, facility_types,
                   show_correlation, fig, correlation_df, insight,
                   selected_categories, chart_style, output>>

\* create_facility_correlation_chart(facility_counts_df, ...)
CallChart ==
    /\ pc = "tallied"
    /\ \E minimum \in 0..MaxThreshold, types \in SUBSET FacilityTypes,
          show \in BOOLEAN :
          \E res \in create_facility_correlation_chart_in(
                         <<facility_counts_df>>, 1, minimum, types, show) :
              /\ min_facilities' = minimum
              /\ facility_types' = types
              /\ show_correlation' = show
              /\ raised' = res.raised
              /\ fig' = res.fig
              /\ correlation_df' = res.filtered_df
              /\ facility_counts_df' = res.heap[1]
              /\ pc' = IF res.raised = "none" THEN "charted" ELSE "raised"
    /\ calls' = Append(calls, "create_facility_correlation_chart")
    /\ UNCHANGED <<raw_data, infrastructure_df, insight, selected_categories,
                   chart_style, output>>

FrameNext == CallAggregator \/ CallCounts \/ CallChart

SpecFrame == FrameInit /\ [][FrameNext]_vars

-----------------------------------------------------------------------------
(* Claims about process_infrastructure_data *)

AggDone == pc = "done" /\ infrastructure_df # <<>>

\* the number of rows of raw_data whose flag in column col is set
FlagCount(col) ==
    Cardinality({r \in 1..Len(raw_data.rows) : raw_data.rows[r][col] = 1})

\* C1: every row returned by process_infrastructure_data satisfies
\* Towns_With + Towns_Without = Total_Towns, for each of the five categories.
C1_WithPlusWithoutIsTotal ==
    pc = "done" =>
        \A i \in DOMAIN infrastructure_df :
            infrastructure_df[i].Towns_With + infrastructure_df[i].Towns_Without
                = infrastructure_df[i].Total_Towns

C1_Witness ==
    /\ AggDone
    /\ \E i \in DOMAIN infrastructure_df :
          /\ infrastructure_df[i].Towns_With > 0
          /\ infrastructure_df[i].Towns_Without > 0

\* C2: Availability_Percentage is Towns_With / Total_Towns * 100 when
\* Total_Towns > 0 and exactly 0 when Total_Towns = 0, with no error, and it
\* always lies in [0, 100]; 3 of 20 gives 15 and 0 of 0 gives 0.
C2_PercentageDefined ==
    /\ Percentage(3, Total(3, 17)) = Num(15)
    /\ Percentage(0, Total(0, 0)) = Num(0)
    /\ pc = "done" =>
        /\ raised = "none"
        /\ \A i \in DOMAIN infrastructure_df :
              LET r == infrastructure_df[i]
              IN  /\ r.Total_Towns > 0 =>
                        r.Availability_Percentage
                            = Rat(100 * r.Towns_With, r.Total_Towns)
                  /\ r.Total_Towns = 0 => r.Availability_Percentage = Num(0)
                  /\ RatLe(Num(0), r.Availability_Percentage)
                  /\ RatLe(r.Availability_Percentage, Num(100))

C2_Witness ==
    /\ AggDone
    /\ \E i, j \in DOMAIN infrastructure_df :
          /\ infrastructure_df[i].Total_Towns = 0
          /\ RatLt(Num(0), infrastructure_df[j].Availability_Percentage)
          /\ RatLt(infrastructure_df[j].Availability_Percentage, Num(100))

\* C3: for every input table, an empty one and one lacking any subset of the
\* ten existence columns included, process_infrastructure_data raises nothing
\* and returns five rows in the order Hotels, Restaurants, Cafes, Guest
\* Houses, Tourist Attractions; an absent column counts 0 while the other
\* side of its category reports its own sum.
C3_FiveRowsNoError ==
    pc = "done" =>
        /\ raised = "none"
        /\ [i \in DOMAIN infrastructure_df |-> infrastructure_df[i].Category]
              = <<"Hotels", "Restaurants", "Cafes", "Guest Houses",
                  "Tourist Attractions">>
        /\ \A i \in DOMAIN infrastructure_df :
              LET m == infrastructure_mapping[i]
                  r == infrastructure_df[i]
              IN  /\ r.Towns_With =
                        IF m.exists_col \in raw_data.columns
                        THEN FlagCount(m.exists_col) ELSE 0
                  /\ r.Towns_Without =
                        IF m.not_exists_col \in raw_data.columns
                        THEN FlagCount(m.not_exists_col) ELSE 0

C3_Witness ==
    /\ AggDone
    /\ raised = "none"
    /\ \E i \in DOMAIN infrastructure_df :
          /\ infrastructure_mapping[i].exists_col \notin raw_data.columns
          /\ infrastructure_mapping[i].not_exists_col \in raw_data.columns
          /\ infrastructure_df[i].Towns_With = 0
          /\ infrastructure_df[i].Towns_Without > 0
    /\ \E j \in DOMAIN infrastructure_df :
          /\ infrastructure_mapping[j].exists_col \in raw_data.columns
          /\ infrastructure_mapping[j].not_exists_col \notin raw_data.columns
          /\ infrastructure_df[j].Towns_With > 0

-----------------------------------------------------------------------------
(* Claims about process_facility_counts *)

AllSourceColumns == SourceColumns \subseteq raw_data.columns

\* what a cell of the input counts for: its number, or 0 when it is missing
\* or no number
Counted(cell) ==
    CASE cell.kind = "int" -> cell.val
      [] cell.kind = "str" /\ cell.text = "2" -> 2
      [] OTHER -> 0

\* the sum of the counts of input row i
TownTotal(i) ==
    LET row == raw_data.rows[i]
    IN  Counted(row["Total number of hotels"])
        + Counted(row["Total number of restaurants"])
        + Counted(row["Total number of cafes"])
        + Counted(row["Total number of guest houses"])

IsBadCell(cell) ==
    cell.kind = "nan" \/ (cell.kind = "str" /\ cell.text = "unknown")

HasBadCell(i) == \E c \in SourceColumns : IsBadCell(raw_data.rows[i][c])

\* the k-th smallest element of a set of indices
Kth(K, k) == CHOOSE i \in K : Cardinality({j \in K : j < i}) = k - 1

\* C4: a facility-count column absent from the input counts as zero for
\* every town and process_facility_counts completes without raising.
C4_AbsentColumnIsZero ==
    (pc \in {"counted", "raised"} /\ ~AllSourceColumns) =>
        /\ raised = "none"
        /\ pc = "counted"
        /\ \A j \in 1..Len(facility_counts_df.rows) :
              \A k \in DOMAIN facility_columns :
                  facility_columns[k].src \notin raw_data.columns =>
                      facility_counts_df.rows[j][facility_columns[k].dst] = 0

\* C5: a non-numeric or missing entry in any of the four facility-count
\* columns counts as 0 instead of failing the computation; the town's
\* Total_Facilities is the sum of its remaining counts and the town is kept
\* whenever that sum is > 0.
C5_BadEntryIsZero ==
    (pc \in {"counted", "raised"} /\ AllSourceColumns) =>
        /\ raised = "none"
        /\ pc = "counted"
        /\ \A i \in 1..Len(raw_data.rows) :
              HasBadCell(i) =>
                LET kept == {j \in 1..Len(facility_counts_df.rows) :
                                facility_counts_df.rows[j].Town
                                    = raw_data.rows[i].Town}
                IN  /\ TownTotal(i) > 0 => kept # {}
                    /\ \A j \in kept :
                          LET out == facility_counts_df.rows[j]
                          IN  /\ out.Total_Facilities = TownTotal(i)
                              /\ \A k \in DOMAIN facility_columns :
                                    IsBadCell(raw_data.rows[i][facility_columns[k].src])
                                        => out[facility_columns[k].dst] = 0

C5_Witness ==
    /\ pc = "counted"
    /\ \E i, j \in 1..Len(raw_data.rows) :
          /\ \E c \in SourceColumns : raw_data.rows[i][c] = StrCell("unknown")
          /\ \E c \in SourceColumns : raw_data.rows[j][c] = NaNCell
          /\ TownTotal(i) > 0
          /\ TownTotal(j) > 0
    /\ Len(facility_counts_df.rows) = 2

\* C6: each row returned by process_facility_counts has Total_Facilities =
\* Total_Hotels + Total_Restaurants + Total_Cafes + Total_Guest_Houses, and
\* the returned rows are exactly the input towns whose total is > 0.
C6_TotalAndFilter ==
    pc = "counted" =>
        LET out == facility_counts_df.rows
            K   == {i \in 1..Len(raw_data.rows) : TownTotal(i) > 0}
        IN  /\ \A j \in 1..Len(out) :
                  /\ out[j].Total_Facilities
                        = out[j].Total_Hotels + out[j].Total_Restaurants
                          + out[j].Total_Cafes + out[j].Total_Guest_Houses
                  /\ out[j].Total_Facilities > 0
            /\ Len(out) = Cardinality(K)
            /\ \A j \in 1..Len(out) :
                  /\ out[j].Town = raw_data.rows[Kth(K, j)].Town
                  /\ out[j].Total_Facilities = TownTotal(Kth(K, j))

C6_Witness ==
    /\ pc = "counted"
    /\ Len(raw_data.rows) = 2
    /\ TownTotal(1) = 0
    /\ TownTotal(2) > 0
    /\ Len(facility_counts_df.rows) = 1
    /\ facility_counts_df.rows[1].Total_Guest_Houses > 0

-----------------------------------------------------------------------------
(* Claims about create_facility_correlation_chart *)

\* the rows of the table handed to the chart that reach the threshold
Reaching == {i \in 1..Len(facility_counts_df.rows) :
                facility_counts_df.rows[i].Total_Facilities >= min_facilities}

Hotels == Column(correlation_df, "Total_Hotels")
Restaurants == Column(correlation_df, "Total_Restaurants")

One == [nan |-> FALSE, sign |-> 1, sq |-> Num(1)]

\* C7: the table returned by create_facility_correlation_chart holds exactly
\* the input rows with Total_Facilities >= min_facilities, in their input
\* order, each with all its fields and its Total_Facilities.
C7_FilterKeepsOrderAndFields ==
    pc = "done" =>
        /\ facility_counts_df.columns \subseteq correlation_df.columns
        /\ Len(correlation_df.rows) = Cardinality(Reaching)
        /\ \A j \in 1..Len(correlation_df.rows) :
              \A c \in facility_counts_df.columns :
                  correlation_df.rows[j][c]
                      = facility_counts_df.rows[Kth(Reaching, j)][c]

C7_Witness ==
    /\ pc = "done"
    /\ Len(correlation_df.rows) = 2
    /\ Len(facility_counts_df.rows) = 3
    /\ facility_counts_df.rows[2].Total_Facilities < min_facilities
    /\ correlation_df.rows[1].Total_Facilities = min_facilities
    /\ correlation_df.rows[2].Town = facility_counts_df.rows[3].Town

\* the chart has been asked for, whether it was drawn or the call raised
Charted == pc = "done" \/ (pc = "raised" /\ raised = "LinAlgError")

\* C8: with fewer than two rows left after the filter no correlation
\* coefficient and no trend line is produced (trace, annotation, insight);
\* with two or more left, and the correlation asked for, both the Pearson
\* coefficient of hotels against restaurants and the degree-1 best-fit line
\* are produced.
C8_CorrelationGate ==
    Charted =>
        /\ Cardinality(Reaching) < 2 =>
              /\ pc = "done"
              /\ fig.trend = <<>>
              /\ fig.annotations = <<>>
              /\ insight = <<>>
        /\ (Cardinality(Reaching) >= 2 /\ show_correlation) =>
              /\ pc = "done"
              /\ Len(fig.trend) = 1
              /\ Len(fig.annotations) = 1
              /\ Len(insight) = 1
              /\ ~fig.trend[1].name.nan
              /\ ~fig.annotations[1].text.nan
              /\ ~insight[1].correlation_coeff.nan
              /\ ~fig.trend[1].z.nan

\* C9: for the rows {hotels 1, restaurants 2} and {hotels 3, restaurants 6}
\* threshold 0 keeps both, the correlation is 1 and the line has slope 2 and
\* intercept 0; for any two or more rows whose restaurant count is an exact
\* positive linear function of a non-constant hotel count the correlation is
\* 1 and the fitted line is that function.
C9_PerfectLine ==
    /\ (pc = "done" /\ min_facilities = 0
            /\ Column(facility_counts_df, "Total_Hotels") = <<1, 3>>
            /\ Column(facility_counts_df, "Total_Restaurants") = <<2, 6>>) =>
          /\ Hotels = <<1, 3>>
          /\ Restaurants = <<2, 6>>
          /\ show_correlation =>
                /\ fig.trend[1].name = One
                /\ fig.trend[1].z = [nan |-> FALSE, slope |-> Num(2),
                                     intercept |-> Num(0)]
    /\ (pc = "done" /\ show_correlation /\ Len(correlation_df.rows) >= 2) =>
          LET x == Hotels
              y == Restaurants
              P == {i \in DOMAIN x : x[i] # x[1]}
          IN  \A p \in P :
                LET dx == x[p] - x[1]
                    dy == y[p] - y[1]
                IN  (/\ dx * dy > 0
                     /\ \A i \in DOMAIN x : (y[i] - y[1]) * dx = dy * (x[i] - x[1]))
                    => /\ fig.trend[1].name = One
                       /\ fig.annotations[1].text = One
                       /\ insight[1].correlation_coeff = One
                       /\ fig.trend[1].z
                            = [nan |-> FALSE, slope |-> Rat(dy, dx),
                               intercept |-> RatSub(Num(y[1]),
                                                    RatMul(Rat(dy, dx), Num(x[1])))]

C9_Witness ==
    /\ pc = "done"
    /\ show_correlation
    /\ min_facilities = 0
    /\ Hotels = <<1, 3>>
    /\ Restaurants = <<2, 6>>
    /\ fig.trend[1].name = One
    /\ fig.trend[1].z.slope = Num(2)
    /\ fig.trend[1].z.intercept = Num(0)

TypeCount(row, t) ==
    CASE t = "Hotels" -> row.Total_Hotels
      [] t = "Restaurants" -> row.Total_Restaurants
      [] t = "Cafes" -> row.Total_Cafes
      [] t = "Guest Houses" -> row.Total_Guest_Houses

RECURSIVE SumOfTypes(_, _)
SumOfTypes(row, S) ==
    IF S = {} THEN 0
    ELSE LET t == CHOOSE u \in S : TRUE
         IN  TypeCount(row, t) + SumOfTypes(row, S \ {t})

\* C10: for every filtered row and every subset S of the four facility
\* types, Selected_Facilities is the sum of the row's counts of the types in
\* S (0 for the empty S), a function of the row and S alone, and S changes
\* neither the rows kept nor their Total_Facilities.
C10_SelectedFacilities ==
    pc = "done" =>
        /\ Len(correlation_df.rows) = Cardinality(Reaching)
        /\ \A j \in 1..Len(correlation_df.rows) :
              LET row == correlation_df.rows[j]
                  src == facility_counts_df.rows[Kth(Reaching, j)]
              IN  /\ row.Selected_Facilities = SumOfTypes(src, facility_types)
                  /\ facility_types = {} => row.Selected_Facilities = 0
                  /\ row.Town = src.Town
                  /\ row.Total_Facilities = src.Total_Facilities
                  /\ fig.scatter.size[j] = 3 * SumOfTypes(src, facility_types) + 8

C10_Witness ==
    /\ pc = "done"
    /\ facility_types = {"Cafes", "Guest Houses"}
    /\ min_facilities > 0
    /\ \E j \in 1..Len(correlation_df.rows) :
          /\ correlation_df.rows[j].Selected_Facilities = 2
          /\ correlation_df.rows[j].Total_Facilities = 4
    /\ \E j \in 1..Len(correlation_df.rows) :
          correlation_df.rows[j].Selected_Facilities = 0

-----------------------------------------------------------------------------
(* Claims about the coefficient reported *)

\* the coefficients the chart and the insight report: the name of the trend
\* line, the annotation and the insight text
Reported ==
    {fig.trend[i].name : i \in DOMAIN fig.trend}
    \cup {fig.annotations[i].text : i \in DOMAIN fig.annotations}
    \cup {insight[i].correlation_coeff : i \in DOMAIN insight}

\* a defined number in [-1, 1], held as its sign and its square
InUnitInterval(r) ==
    /\ ~r.nan
    /\ r.sign \in {-1, 0, 1}
    /\ RatLe(Num(0), r.sq)
    /\ RatLe(r.sq, Num(1))

\* all hotel counts or all restaurant counts of the filtered rows are equal
ZeroVariance ==
    \/ \A i, j \in DOMAIN Hotels : Hotels[i] = Hotels[j]
    \/ \A i, j \in DOMAIN Restaurants : Restaurants[i] = Restaurants[j]

\* C15: every correlation coefficient reported (trend-line name, annotation,
\* insight text) is a defined number in [-1, 1]; for two or more filtered
\* rows of zero variance no NaN is reported as the correlation or classified
\* as a negative correlation.
C15_CoefficientDefined ==
    pc = "done" =>
        /\ \A r \in Reported : InUnitInterval(r)
        /\ (Len(correlation_df.rows) >= 2 /\ ZeroVariance) =>
              \A i \in DOMAIN insight :
                  insight[i].interpretation # "Negative correlation"

-----------------------------------------------------------------------------
(* Claims about a run of main *)

\* the table loaded holds the four facility-count columns and none of its
\* towns has any facility (a table without rows included)
NoTownHasFacilities ==
    /\ ~raw_data.none
    /\ SourceColumns \subseteq raw_data.columns
    /\ \A i \in 1..Len(raw_data.rows) : TownTotal(i) = 0

\* C11: a run of main over a loaded table in which no town has any facility
\* (process_facility_counts returns an empty table), or over a table without
\* rows, raises nothing, at the threshold slider and at the percentages of
\* all towns included, and runs to its end.
C11_EmptyTableNoCrash ==
    (NoTownHasFacilities /\ pc \notin {"main", "loaded"}) =>
        /\ raised = "none"
        /\ pc # "raised"
        /\ facility_counts_df.rows = <<>>

\* the load has failed: load_data has answered None
LoadHasFailed == pc # "main" /\ raw_data.none

\* the number of times the run has invoked f
Invocations(f) == Cardinality({i \in DOMAIN calls : calls[i] = f})

\* C14: when requests.get or pd.read_csv raises, load_data has made one
\* request, has not retried and answers None; the run of main reports the
\* failure and ends there, having invoked neither process_* function and
\* rendered no chart.
C14_FailedLoadEndsRun ==
    /\ pc # "main" =>
          /\ Invocations("load_data") = 1
          /\ Invocations("requests.get") = 1
          /\ Invocations("pd.read_csv") = 0 => raw_data.none
    /\ LoadHasFailed =>
          /\ pc \in {"loaded", "returned"}
          /\ raised = "none"
          /\ calls \in {<<"load_data", "requests.get">>,
                        <<"load_data", "requests.get", "pd.read_csv">>}
          /\ infrastructure_df = <<>>
          /\ facility_counts_df = None
          /\ fig = <<>>
          /\ \A i \in DOMAIN output : output[i].kind = "error"
          /\ output[1] = Message("error", "Error loading data")
          /\ pc = "returned" =>
                output = << Message("error", "Error loading data"),
                            Message("error", "Failed to load data") >>

C14_Witness ==
    /\ pc = "returned"
    /\ raw_data.none
    /\ calls = <<"load_data", "requests.get", "pd.read_csv">>
    /\ Len(output) = 2

\* the labels of the dataset overview, which the sidebar shows before the
\* selections are examined
OverviewLabels ==
    {"Total Towns Analyzed", "Towns with Facilities", "Infrastructure Categories"}

\* what the page shows beside the dataset overview: metrics, charts, insights
MainContent ==
    {i \in DOMAIN output :
        /\ output[i].kind \in {"metric", "plotly_chart", "insight", "dataframe"}
        /\ output[i].label \notin OverviewLabels}

\* the multiselect of the infrastructure types has been read
CategoriesChosen == chart_style # ""

\* the multiselect of the facility types has been read
TypesChosen == CategoriesChosen /\ pc # "processed" /\ raised # "ValueError"

EndsWithWarning ==
    /\ pc = "returned"
    /\ raised = "none"
    /\ output # <<>>
    /\ output[Len(output)].kind = "warning"
    /\ MainContent = {}

\* C16: when the selected category list is empty or the selected facility
\* type list is empty, the run ends with a warning before any metric, chart
\* or insight of the page is produced; hence whenever the infrastructure
\* insight is reached, the category table filtered by the selection has at
\* least one row for idxmax and idxmin.
C16_EmptySelectionWarns ==
    /\ (CategoriesChosen /\ selected_categories = {} /\ pc # "controls")
          => EndsWithWarning
    /\ (TypesChosen /\ facility_types = {} /\ pc # "controls")
          => EndsWithWarning
    /\ pc \in {"viz1", "viz2", "done"} =>
          Len(CategoryRows(infrastructure_df, selected_categories)) >= 1

\* the value and the delta of the metric shown under a label
Shown(label) ==
    output[CHOOSE i \in DOMAIN output :
               output[i].kind = "metric" /\ output[i].label = label]

IsShown(label) ==
    \E i \in DOMAIN output : output[i].kind = "metric" /\ output[i].label = label

\* C17: on every run, the counts displayed are ordered: Tourism-Ready Towns
\* <= threshold-filtered rows <= Towns with Facilities <= Total Towns
\* Analyzed, and Integrated Infrastructure <= threshold-filtered rows; so
\* neither percentage of all towns exceeds 100.
C17_CountsOrdered ==
    /\ IsShown("Towns with Facilities") =>
          /\ Shown("Towns with Facilities").value = Len(facility_counts_df.rows)
          /\ Shown("Total Towns Analyzed").value = Len(raw_data.rows)
          /\ Shown("Towns with Facilities").value
                <= Shown("Total Towns Analyzed").value
    /\ pc \in {"viz2", "done"} =>
          Len(correlation_df.rows) <= Shown("Towns with Facilities").value
    /\ pc = "done" =>
          /\ Shown("Tourism-Ready Towns").value
                = Cardinality({i \in 1..Len(correlation_df.rows) :
                                  correlation_df.rows[i].Total_Facilities >= 10})
          /\ Shown("Integrated Infrastructure").value
                = Cardinality({i \in 1..Len(correlation_df.rows) :
                                  /\ correlation_df.rows[i].Total_Hotels > 0
                                  /\ correlation_df.rows[i].Total_Restaurants > 0})
          /\ Shown("Tourism-Ready Towns").value <= Len(correlation_df.rows)
          /\ Shown("Integrated Infrastructure").value <= Len(correlation_df.rows)
          /\ RatLe(Shown("Tourism-Ready Towns").delta, Num(100))
          /\ RatLe(Shown("Integrated Infrastructure").delta, Num(100))
          /\ RatLe(Num(0), Shown("Tourism-Ready Towns").delta)
          /\ RatLe(Num(0), Shown("Integrated Infrastructure").delta)

C17_Witness ==
    /\ pc = "done"
    /\ min_facilities = 3
    /\ Shown("Tourism-Ready Towns").value = 1
    /\ Shown("Integrated Infrastructure").value = 1
    /\ Len(correlation_df.rows) = 1
    /\ Shown("Towns with Facilities").value = 2
    /\ Shown("Total Towns Analyzed").value = 2
    /\ Shown("Tourism-Ready Towns").delta = Num(50)

-----------------------------------------------------------------------------
(* Claims about the tables handed to the three functions *)

\* C12: process_infrastructure_data, process_facility_counts and
\* create_facility_correlation_chart leave the table handed in unchanged: no
\* column added, no row removed, no value altered, so the next call on the
\* same table sees the same input.
C12_InputUnchanged ==
    [][/\ raw_data' = raw_data
       /\ pc = "tallied" => facility_counts_df' = facility_counts_df]_vars

C12_Witness ==
    /\ pc = "charted"
    /\ Len(raw_data.rows) = 2
    /\ "Total_Facilities" \notin raw_data.columns
    /\ Len(facility_counts_df.rows) = 2
    /\ "Total_Facilities" \in facility_counts_df.columns
    /\ "Selected_Facilities" \notin facility_counts_df.columns
    /\ Len(correlation_df.rows) = 1
    /\ "Selected_Facilities" \in correlation_df.columns

=============================================================================
